---- MODULE Spec2Model ----
(***************************************************************************)
(* Model of apps/backend/src/lib/projects.tsx: the read-side flattening    *)
(* projectPrismaToCrud / getProject and the provisioning transaction       *)
(* createProject, run against a transactional store with row-level write   *)
(* locks and read-committed visibility (the store's default isolation,     *)
(* since $transaction is called without an isolationLevel).                *)
(*                                                                         *)
(* An optional value (undefined / null in the source) is a sequence of     *)
(* length at most one: None is <<>>, Some(v) is <<v>>.                     *)
(***************************************************************************)
EXTENDS Integers, Sequences, FiniteSets

VARIABLES
    projects,   \* committed Project rows with their ProjectConfig graph
    users,      \* committed ProjectUser rows of project "internal", by user id
    nextUuid,   \* generateUuid(): the next fresh project id
    budget,     \* createProject calls that may still be started
    proc,       \* per caller: position in createProject and its locals
    captured,   \* what captureError recorded (non-fatal anomalies)
    lastRead    \* the last getProject call: [projectId, result]

vars == <<projects, users, nextUuid, budget, proc, captured, lastRead>>

----------------------------------------------------------------------------
(* Bounds of the model *)

MaxProviders == 2   \* longest oauth_providers list of a request
MaxDomains == 2     \* longest domains list of a request
MaxOwners == 2      \* longest ownerIds list of a call
MaxCalls == 2       \* createProject calls in the concurrent specification

----------------------------------------------------------------------------
(* Optional values *)

None == <<>>
Some(v) == <<v>>
IsSome(o) == o # <<>>
Get(o) == o[1]

SeqsUpTo(S, n) == UNION {[1..k -> S] : k \in 0..n}
Range(s) == {s[i] : i \in DOMAIN s}

----------------------------------------------------------------------------
(* Strings: collation and case conversion *)

\* The strings the model compares, in localeCompare order.
Collation ==
    <<"$delete_team", "$read_members", "admin", "github", "gitlab", "google",
      "https://a.example", "https://b.example", "member">>

CollationIndex(s) == CHOOSE i \in DOMAIN Collation : Collation[i] = s

\* String.prototype.localeCompare: negative, zero or positive.
localeCompare(a, b) == CollationIndex(a) - CollationIndex(b)

typedToUppercase(s) ==
    CASE s = "github" -> "GITHUB"
      [] s = "gitlab" -> "GITLAB"
      [] s = "google" -> "GOOGLE"

typedToLowercase(s) ==
    CASE s = "GITHUB" -> "github"
      [] s = "GITLAB" -> "gitlab"
      [] s = "GOOGLE" -> "google"

\* Array.prototype.sort with (a, b) => key(a).localeCompare(key(b)): a stable
\* sort; key[i] is the sort key of s[i].
\* Faulty variant: the list is left in stored order.
unsortedBy(s, key) == s

sortBy(s, key) ==
    LET n == Len(s)
        before(j, i) == \/ localeCompare(key[j], key[i]) < 0
                        \/ (localeCompare(key[j], key[i]) = 0 /\ j < i)
        rank(i) == Cardinality({j \in 1..n : before(j, i)}) + 1
    IN  [k \in 1..n |-> s[CHOOSE i \in 1..n : rank(i) = k]]

\* Array.prototype.find: the first element passing the test, or undefined.
\* hits are the elements passing the test, in order.
find(hits) == IF hits = <<>> THEN None ELSE Some(hits[1])

----------------------------------------------------------------------------
(* Error kinds *)

ValidationError == "ValidationError"        \* caller input rejected
InvariantViolation == "InvariantViolation"  \* StackAssertionError on stored data
StoreError == "StoreError"                  \* raised by the store itself

Ok(v) == [err |-> None, value |-> Some(v)]
Throw(kind, message) == [err |-> Some([kind |-> kind, message |-> message]), value |-> None]
Rethrow(r) == [err |-> r.err, value |-> None]
Failed(r) == IsSome(r.err)

\* The outcome of mapping a throwing function over a list: the first throw
\* in list order, else the list of values.
mapOrThrow(results) ==
    LET bad == SelectSeq([i \in DOMAIN results |-> i], LAMBDA i : IsSome(results[i].err))
    IN  IF bad # <<>> THEN Rethrow(results[bad[1]])
        ELSE Ok([i \in DOMAIN results |-> Get(results[i].value)])

----------------------------------------------------------------------------
(* Collaborators imported by projects.tsx *)

\* request-checks: the provider allowlists.
sharedProviders == {"github", "google"}
standardProviders == {"github", "gitlab", "google"}

ensureSharedProvider(id) ==
    IF id \in sharedProviders THEN Ok(id)
    ELSE Throw(ValidationError, "not a shared provider")

ensureStandardProvider(id) ==
    IF id \in standardProviders THEN Ok(id)
    ELSE Throw(ValidationError, "not a standard provider")

\* throwErr(message): always throws. A missing required request field is a
\* ValidationError; a provider missing from the list it was created from is
\* an InvariantViolation.
throwErr(message) ==
    Throw(IF message = "oauth provider not found" THEN InvariantViolation
          ELSE ValidationError, message)

\* a ?? throwErr(message)
orThrow(o, message) == IF IsSome(o) THEN Ok(Get(o)) ELSE throwErr(message)

\* permissions.tsx: the public id of a custom permission / of a system one.
teamPermissionDefinitionJsonFromDbType(perm) == [id |-> perm.queryableId]

teamPermissionDefinitionJsonFromTeamSystemDbType(sys) ==
    [id |-> CASE sys = "READ_MEMBERS" -> "$read_members"
              [] sys = "DELETE_TEAM" -> "$delete_team"]

----------------------------------------------------------------------------
(* Creation requests: InternalProjectsCrud["Admin"]["Create"] *)

\* data.config?.<field>
cfg(data, field) == IF IsSome(data.config) THEN Get(data.config)[field] ELSE None

\* A request without config, and a config without any field.
NoConfig == [config |-> None]

EmptyConfig ==
    [oauth_providers |-> None, domains |-> None, email_config |-> None,
     magic_link_enabled |-> None, credential_enabled |-> None, passkey_enabled |-> None]

\* A row created with no caller-supplied columns (create: {}).
EmptyRow == [created |-> TRUE]

----------------------------------------------------------------------------
(* createProject, step by step: the data each store call is given *)

\* One element of oauthProviderConfigs.create. The object literal is
\* evaluated in source order, so the shared check precedes the standard one.
\* Faulty variant: a standard entry is accepted without client_secret.
secretNotRequired(item) ==
    LET proxied ==
            IF item.type = "shared"
            THEN LET t == ensureSharedProvider(item.id)
                 IN  IF Failed(t) THEN Rethrow(t)
                     ELSE Ok(Some([type |-> typedToUppercase(Get(t.value))]))
            ELSE Ok(None)
        standard ==
            IF item.type = "standard"
            THEN LET t == ensureStandardProvider(item.id)
                     cid == orThrow(item.client_id, "client_id is required")
                 IN  IF Failed(t) THEN Rethrow(t)
                     ELSE IF Failed(cid) THEN Rethrow(cid)
                     ELSE Ok(Some([type |-> typedToUppercase(Get(t.value)),
                                   clientId |-> Get(cid.value),
                                   clientSecret |-> IF IsSome(item.client_secret)
                                                    THEN Get(item.client_secret) ELSE ""]))
            ELSE Ok(None)
    IN  IF Failed(proxied) THEN Rethrow(proxied)
        ELSE IF Failed(standard) THEN Rethrow(standard)
        ELSE Ok([id |-> item.id,
                 proxiedOAuthConfig |-> Get(proxied.value),
                 standardOAuthConfig |-> Get(standard.value)])

oauthProviderConfigCreate(item) ==
    LET proxied ==
            IF item.type = "shared"
            THEN LET t == ensureSharedProvider(item.id)
                 IN  IF Failed(t) THEN Rethrow(t)
                     ELSE Ok(Some([type |-> typedToUppercase(Get(t.value))]))
            ELSE Ok(None)
        standard ==
            IF item.type = "standard"
            THEN LET t == ensureStandardProvider(item.id)
                     cid == orThrow(item.client_id, "client_id is required")
                     sec == orThrow(item.client_secret, "client_secret is required")
                 IN  IF Failed(t) THEN Rethrow(t)
                     ELSE IF Failed(cid) THEN Rethrow(cid)
                     ELSE IF Failed(sec) THEN Rethrow(sec)
                     ELSE Ok(Some([type |-> typedToUppercase(Get(t.value)),
                                   clientId |-> Get(cid.value),
                                   clientSecret |-> Get(sec.value)]))
            ELSE Ok(None)
    IN  IF Failed(proxied) THEN Rethrow(proxied)
        ELSE IF Failed(standard) THEN Rethrow(standard)
        ELSE Ok([id |-> item.id,
                 proxiedOAuthConfig |-> Get(proxied.value),
                 standardOAuthConfig |-> Get(standard.value)])

\* oauthProviderConfigs of the create call: undefined when the request has
\* no oauth_providers.
oauthProviderConfigsCreate(data) ==
    LET ps == cfg(data, "oauth_providers")
    IN  IF IsSome(ps)
        THEN mapOrThrow([i \in DOMAIN Get(ps) |-> oauthProviderConfigCreate(Get(ps)[i])])
        ELSE Ok(<<>>)

EmailFields == <<"host", "port", "username", "password", "sender_email", "sender_name">>

\* Faulty variant: sender_name is not required and is stored empty when absent.
senderNameOptional(e) ==
    LET missing == SelectSeq(EmailFields, LAMBDA f : f # "sender_name" /\ ~IsSome(e[f]))
    IN  IF missing # <<>> THEN
            throwErr(CASE missing[1] = "host" -> "host is required"
                       [] missing[1] = "port" -> "port is required"
                       [] missing[1] = "username" -> "username is required"
                       [] missing[1] = "password" -> "password is required"
                       [] missing[1] = "sender_email" -> "sender_email is required")
        ELSE Ok([host |-> Get(e.host), port |-> Get(e.port),
                 username |-> Get(e.username), password |-> Get(e.password),
                 senderEmail |-> Get(e.sender_email),
                 senderName |-> IF IsSome(e.sender_name) THEN Get(e.sender_name) ELSE ""])

standardEmailServiceConfigCreate(e) ==
    LET missing == SelectSeq(EmailFields, LAMBDA f : ~IsSome(e[f]))
    IN  IF missing # <<>> THEN
            throwErr(CASE missing[1] = "host" -> "host is required"
                       [] missing[1] = "port" -> "port is required"
                       [] missing[1] = "username" -> "username is required"
                       [] missing[1] = "password" -> "password is required"
                       [] missing[1] = "sender_email" -> "sender_email is required"
                       [] missing[1] = "sender_name" -> "sender_name is required")
        ELSE Ok([host |-> Get(e.host), port |-> Get(e.port),
                 username |-> Get(e.username), password |-> Get(e.password),
                 senderEmail |-> Get(e.sender_email),
                 senderName |-> Get(e.sender_name)])

\* emailServiceConfig of the create call: the requested variant, or the
\* shared (proxied) one when the request has no email_config.
\* Faulty variant: no email service config when the request has none.
noDefaultEmailServiceConfig(data) ==
    LET ec == cfg(data, "email_config")
    IN  IF IsSome(ec) THEN
            LET e == Get(ec)
                proxied == IF e.type = "shared" THEN Some(EmptyRow) ELSE None
                standard == IF e.type = "standard"
                            THEN standardEmailServiceConfigCreate(e)
                            ELSE Ok(None)
            IN  IF Failed(standard) THEN Rethrow(standard)
                ELSE Ok(Some([proxiedEmailServiceConfig |-> proxied,
                              standardEmailServiceConfig |->
                                  IF e.type = "standard" THEN standard.value ELSE None]))
        ELSE Ok(None)

\* Faulty variant: the shared variant is created whatever the requested type.
sharedAlongsideStandard(data) ==
    LET ec == cfg(data, "email_config")
    IN  IF IsSome(ec) THEN
            LET e == Get(ec)
                proxied == Some(EmptyRow)
                standard == IF e.type = "standard"
                            THEN standardEmailServiceConfigCreate(e)
                            ELSE Ok(None)
            IN  IF Failed(standard) THEN Rethrow(standard)
                ELSE Ok(Some([proxiedEmailServiceConfig |-> proxied,
                              standardEmailServiceConfig |->
                                  IF e.type = "standard" THEN standard.value ELSE None]))
        ELSE Ok(Some([proxiedEmailServiceConfig |-> Some(EmptyRow),
                      standardEmailServiceConfig |-> None]))

emailServiceConfigCreate(data) ==
    LET ec == cfg(data, "email_config")
    IN  IF IsSome(ec) THEN
            LET e == Get(ec)
                proxied == IF e.type = "shared" THEN Some(EmptyRow) ELSE None
                standard == IF e.type = "standard"
                            THEN standardEmailServiceConfigCreate(e)
                            ELSE Ok(None)
            IN  IF Failed(standard) THEN Rethrow(standard)
                ELSE Ok(Some([proxiedEmailServiceConfig |-> proxied,
                              standardEmailServiceConfig |->
                                  IF e.type = "standard" THEN standard.value ELSE None]))
        ELSE Ok(Some([proxiedEmailServiceConfig |-> Some(EmptyRow),
                      standardEmailServiceConfig |-> None]))

domainsCreate(data) ==
    LET ds == cfg(data, "domains")
    IN  IF IsSome(ds)
        THEN [i \in DOMAIN Get(ds) |->
                 [domain |-> Get(ds)[i].domain, handlerPath |-> Get(ds)[i].handler_path]]
        ELSE <<>>

\* The argument of tx.project.create: evaluated completely, in source order
\* (domains, oauth providers, email config), before the store is called.
projectCreateData(id, data) ==
    LET oauth == oauthProviderConfigsCreate(data)
        email == emailServiceConfigCreate(data)
    IN  IF Failed(oauth) THEN Rethrow(oauth)
        ELSE IF Failed(email) THEN Rethrow(email)
        ELSE Ok([id |-> id,
                 domains |-> domainsCreate(data),
                 oauthProviderConfigs |-> Get(oauth.value),
                 emailServiceConfig |-> Get(email.value),
                 authMethodConfigs |-> <<>>,
                 connectedAccountConfigs |-> <<>>,
                 permissions |-> <<>>,
                 teamCreateDefaultSystemPermissions |-> <<>>,
                 teamMemberDefaultSystemPermissions |-> <<>>])

Distinct(s) == \A i, j \in DOMAIN s : s[i] = s[j] => i = j

\* The store's unique constraints on (configId, providerId) and
\* (configId, domain): a nested create that breaks one is refused whole.
uniqueConstraintsHold(graph) ==
    /\ Distinct([i \in DOMAIN graph.oauthProviderConfigs |-> graph.oauthProviderConfigs[i].id])
    /\ Distinct([i \in DOMAIN graph.domains |-> graph.domains[i].domain])

\* tx.project.create(...): the row graph it returns, or what it throws.
projectCreate(id, data) ==
    LET arg == projectCreateData(id, data)
    IN  IF Failed(arg) THEN Rethrow(arg)
        ELSE IF ~uniqueConstraintsHold(Get(arg.value))
             THEN Throw(StoreError, "unique constraint failed")
        ELSE arg

\* enabled of the request entry a created provider row came from.
requestedEnabled(data, item) ==
    LET ps == cfg(data, "oauth_providers")
        p == IF IsSome(ps) THEN find(SelectSeq(Get(ps), LAMBDA q : q.id = item.id)) ELSE None
    IN  IF IsSome(p) THEN Ok(Get(p).enabled) ELSE throwErr("oauth provider not found")

oauthWrapperCreate(data, item) ==
    LET en == requestedEnabled(data, item)
    IN  IF Failed(en) THEN Rethrow(en)
        ELSE Ok([enabled |-> Get(en.value), oauthProviderConfigId |-> Some(item.id)])

oauthWrappersCreate(data, project) ==
    mapOrThrow([i \in DOMAIN project.oauthProviderConfigs |->
                   oauthWrapperCreate(data, project.oauthProviderConfigs[i])])

AuthMethod(enabled, oauthId, otp, password, passkey) ==
    [enabled |-> enabled, oauthProviderConfigId |-> oauthId, otpConfig |-> otp,
     passwordConfig |-> password, passkeyConfig |-> passkey]

\* authMethodConfigs.create of the first projectConfig.update.
\* Faulty variant: the password method is created only when credential_enabled
\* is given as true (the "?? true" default is missing).
passwordOnlyOnRequest(data, project) ==
    LET oauth == IF IsSome(cfg(data, "oauth_providers"))
                 THEN oauthWrappersCreate(data, project) ELSE Ok(<<>>)
        otp == IF cfg(data, "magic_link_enabled") = Some(TRUE)
               THEN <<AuthMethod(TRUE, None, Some([contactChannelType |-> "EMAIL"]), None, None)>>
               ELSE <<>>
        password == IF cfg(data, "credential_enabled") = Some(TRUE)
                    THEN <<AuthMethod(TRUE, None, None, Some(EmptyRow), None)>>
                    ELSE <<>>
        passkey == IF cfg(data, "passkey_enabled") = Some(TRUE)
                   THEN <<AuthMethod(TRUE, None, None, None, Some(EmptyRow))>>
                   ELSE <<>>
    IN  IF Failed(oauth) THEN Rethrow(oauth)
        ELSE Ok([i \in DOMAIN Get(oauth.value) |->
                    AuthMethod(Get(oauth.value)[i].enabled,
                               Get(oauth.value)[i].oauthProviderConfigId,
                               None, None, None)]
                \o otp \o password \o passkey)

authMethodConfigsCreate(data, project) ==
    LET oauth == IF IsSome(cfg(data, "oauth_providers"))
                 THEN oauthWrappersCreate(data, project) ELSE Ok(<<>>)
        otp == IF cfg(data, "magic_link_enabled") = Some(TRUE)
               THEN <<AuthMethod(TRUE, None, Some([contactChannelType |-> "EMAIL"]), None, None)>>
               ELSE <<>>
        password == IF cfg(data, "credential_enabled") # Some(FALSE)
                    THEN <<AuthMethod(TRUE, None, None, Some(EmptyRow), None)>>
                    ELSE <<>>
        passkey == IF cfg(data, "passkey_enabled") = Some(TRUE)
                   THEN <<AuthMethod(TRUE, None, None, None, Some(EmptyRow))>>
                   ELSE <<>>
    IN  IF Failed(oauth) THEN Rethrow(oauth)
        ELSE Ok([i \in DOMAIN Get(oauth.value) |->
                    AuthMethod(Get(oauth.value)[i].enabled,
                               Get(oauth.value)[i].oauthProviderConfigId,
                               None, None, None)]
                \o otp \o password \o passkey)

\* connectedAccountConfigs.create of the second projectConfig.update: one
\* row for every created provider config, shared and standard alike.
\* Faulty variant: connected accounts for the standard providers only.
standardOnlyConnectedAccounts(data, project) ==
    IF IsSome(cfg(data, "oauth_providers"))
    THEN oauthWrappersCreate(data,
             [project EXCEPT !.oauthProviderConfigs =
                 SelectSeq(@, LAMBDA c : IsSome(c.standardOAuthConfig))])
    ELSE Ok(<<>>)

connectedAccountConfigsCreate(data, project) ==
    IF IsSome(cfg(data, "oauth_providers"))
    THEN oauthWrappersCreate(data, project)
    ELSE Ok(<<>>)

\* The two tx.permission.create calls.
\* Faulty variant: member lacks INVITE_MEMBERS.
memberWithoutInvite(id) ==
    [queryableId |-> "member", scope |-> "TEAM",
     parentEdges |-> <<"READ_MEMBERS">>,
     isDefaultTeamMemberPermission |-> TRUE,
     isDefaultTeamCreatorPermission |-> FALSE]

memberPermissionCreate(id) ==
    [queryableId |-> "member", scope |-> "TEAM",
     parentEdges |-> <<"READ_MEMBERS", "INVITE_MEMBERS">>,
     isDefaultTeamMemberPermission |-> TRUE,
     isDefaultTeamCreatorPermission |-> FALSE]

adminPermissionCreate(id) ==
    [queryableId |-> "admin", scope |-> "TEAM",
     parentEdges |-> <<"UPDATE_TEAM", "DELETE_TEAM", "READ_MEMBERS",
                       "REMOVE_MEMBERS", "INVITE_MEMBERS">>,
     isDefaultTeamMemberPermission |-> FALSE,
     isDefaultTeamCreatorPermission |-> TRUE]

----------------------------------------------------------------------------
(* The read side: fullProjectInclude and projectPrismaToCrud *)

\* include: fullProjectInclude joins each auth method and connected account
\* with the provider config it references.
fullProjectInclude(project) ==
    LET joined(row) ==
            IF IsSome(row.oauthProviderConfigId)
            THEN find(SelectSeq(project.oauthProviderConfigs,
                                LAMBDA c : c.id = Get(row.oauthProviderConfigId)))
            ELSE None
    IN  [project EXCEPT
            !.authMethodConfigs =
                [i \in DOMAIN @ |->
                    [enabled |-> @[i].enabled,
                     oauthProviderConfig |-> joined(@[i]),
                     otpConfig |-> @[i].otpConfig,
                     passwordConfig |-> @[i].passwordConfig,
                     passkeyConfig |-> @[i].passkeyConfig]],
            !.connectedAccountConfigs =
                [i \in DOMAIN @ |->
                    [enabled |-> @[i].enabled,
                     oauthProviderConfig |-> joined(@[i])]]]

\* The callback of authMethodConfigs.map: the provider entry of an OAuth
\* auth method, undefined for the other auth methods.
\* Faulty variant: the entry of a shared provider is reported as enabled
\* whatever its auth method says.
sharedAlwaysEnabled(config) ==
    IF IsSome(config.oauthProviderConfig) THEN
        LET providerConfig == Get(config.oauthProviderConfig)
        IN  IF IsSome(providerConfig.proxiedOAuthConfig) THEN
                Ok(Some([id |-> typedToLowercase(Get(providerConfig.proxiedOAuthConfig).type),
                         enabled |-> TRUE,
                         type |-> "shared"]))
            ELSE IF IsSome(providerConfig.standardOAuthConfig) THEN
                Ok(Some([id |-> typedToLowercase(Get(providerConfig.standardOAuthConfig).type),
                         enabled |-> config.enabled,
                         type |-> "standard",
                         client_id |-> Get(providerConfig.standardOAuthConfig).clientId,
                         client_secret |-> Get(providerConfig.standardOAuthConfig).clientSecret]))
            ELSE Throw(InvariantViolation, "Exactly one of the provider configs should be set")
    ELSE Ok(None)

oauthProviderOf(config) ==
    IF IsSome(config.oauthProviderConfig) THEN
        LET providerConfig == Get(config.oauthProviderConfig)
        IN  IF IsSome(providerConfig.proxiedOAuthConfig) THEN
                Ok(Some([id |-> typedToLowercase(Get(providerConfig.proxiedOAuthConfig).type),
                         enabled |-> config.enabled,
                         type |-> "shared"]))
            ELSE IF IsSome(providerConfig.standardOAuthConfig) THEN
                Ok(Some([id |-> typedToLowercase(Get(providerConfig.standardOAuthConfig).type),
                         enabled |-> config.enabled,
                         type |-> "standard",
                         client_id |-> Get(providerConfig.standardOAuthConfig).clientId,
                         client_secret |-> Get(providerConfig.standardOAuthConfig).clientSecret]))
            ELSE Throw(InvariantViolation, "Exactly one of the provider configs should be set")
    ELSE Ok(None)

ids(s) == [i \in DOMAIN s |-> s[i].id]

oauthProviders(prisma) ==
    LET mapped == mapOrThrow([i \in DOMAIN prisma.authMethodConfigs |->
                                 oauthProviderOf(prisma.authMethodConfigs[i])])
    IN  IF Failed(mapped) THEN Rethrow(mapped)
        ELSE LET present == SelectSeq(Get(mapped.value), IsSome)
                 list == [i \in DOMAIN present |-> Get(present[i])]
             IN  Ok(sortBy(list, ids(list)))

email_config(prisma) ==
    LET emailServiceConfig == prisma.emailServiceConfig
    IN  IF ~IsSome(emailServiceConfig) THEN
            Throw(InvariantViolation, "Email service config should be set")
        ELSE IF IsSome(Get(emailServiceConfig).proxiedEmailServiceConfig) THEN
            Ok([type |-> "shared"])
        ELSE IF IsSome(Get(emailServiceConfig).standardEmailServiceConfig) THEN
            LET standardEmailConfig == Get(Get(emailServiceConfig).standardEmailServiceConfig)
            IN  Ok([type |-> "standard",
                    host |-> standardEmailConfig.host,
                    port |-> standardEmailConfig.port,
                    username |-> standardEmailConfig.username,
                    password |-> standardEmailConfig.password,
                    sender_email |-> standardEmailConfig.senderEmail,
                    sender_name |-> standardEmailConfig.senderName])
        ELSE Throw(InvariantViolation, "Exactly one of the email service configs should be set")

domainsView(prisma) ==
    LET list == [i \in DOMAIN prisma.domains |->
                    [domain |-> prisma.domains[i].domain,
                     handler_path |-> prisma.domains[i].handlerPath]]
    IN  sortBy(list, [i \in DOMAIN list |-> list[i].domain])

\* filter(flag).map(custom).concat(system.map(...)).sort(by id).map({id})
defaultPermissions(permissions, flag, system) ==
    LET custom == SelectSeq(permissions, LAMBDA perm : perm[flag])
        list == [i \in DOMAIN custom |-> teamPermissionDefinitionJsonFromDbType(custom[i])]
                \o [i \in DOMAIN system |->
                       teamPermissionDefinitionJsonFromTeamSystemDbType(system[i])]
        sorted == sortBy(list, ids(list))
    IN  [i \in DOMAIN sorted |-> [id |-> sorted[i].id]]

hasEnabled(prisma, mechanism) ==
    IsSome(find(SelectSeq(prisma.authMethodConfigs,
                          LAMBDA config : IsSome(config[mechanism]) /\ config.enabled)))

\* The flattened view, or the StackAssertionError thrown on the way: the
\* provider list is built first, the email config inside the literal.
projectPrismaToCrud(prisma) ==
    LET providers == oauthProviders(prisma)
        email == email_config(prisma)
    IN  IF Failed(providers) THEN Rethrow(providers)
        ELSE IF Failed(email) THEN Rethrow(email)
        ELSE Ok([id |-> prisma.id,
                 credential_enabled |-> hasEnabled(prisma, "passwordConfig"),
                 magic_link_enabled |-> hasEnabled(prisma, "otpConfig"),
                 passkey_enabled |-> hasEnabled(prisma, "passkeyConfig"),
                 domains |-> domainsView(prisma),
                 oauth_providers |-> Get(providers.value),
                 enabled_oauth_providers |->
                     SelectSeq(Get(providers.value), LAMBDA provider : provider.enabled),
                 email_config |-> Get(email.value),
                 team_creator_default_permissions |->
                     defaultPermissions(prisma.permissions, "isDefaultTeamCreatorPermission",
                                        prisma.teamCreateDefaultSystemPermissions),
                 team_member_default_permissions |->
                     defaultPermissions(prisma.permissions, "isDefaultTeamMemberPermission",
                                        prisma.teamMemberDefaultSystemPermissions)])

\* prismaClient.project.findUnique on the committed store.
findProject(committed, projectId) ==
    LET hits == {g \in committed : g.id = projectId}
    IN  IF hits = {} THEN None ELSE Some(CHOOSE g \in hits : TRUE)

\* getProject: null for an unknown id, else the flattened view (or its throw).
getProject(committed, projectId) ==
    LET rawProject == findProject(committed, projectId)
    IN  IF ~IsSome(rawProject) THEN Ok(None)
        ELSE LET view == projectPrismaToCrud(fullProjectInclude(Get(rawProject)))
             IN  IF Failed(view) THEN Rethrow(view) ELSE Ok(view.value)

----------------------------------------------------------------------------
(* Owner metadata: the ProjectUser rows of project "internal" *)

UserIds == {"alice", "bob", "carol", "ghost"}

ProjectUser(id, serverMetadata) == [projectUserId |-> id, serverMetadata |-> serverMetadata]

\* The rows present before any call: one user with other metadata and an
\* older managed project, one with null metadata, one with metadata but no
\* managedProjectIds; "ghost" has no row.
InitUsers ==
    [u \in UserIds |->
        CASE u = "alice" -> Some(ProjectUser(u, Some([theme |-> "dark", managedProjectIds |-> <<0>>])))
          [] u = "bob"   -> Some(ProjectUser(u, None))
          [] u = "carol" -> Some(ProjectUser(u, Some([theme |-> "light"])))
          [] u = "ghost" -> None]

\* serverMetadataTx?.managedProjectIds ?? []
managedProjectIdsOf(serverMetadata) ==
    IF "managedProjectIds" \in DOMAIN serverMetadata
    THEN serverMetadata.managedProjectIds ELSE <<>>

\* The serverMetadata written by tx.projectUser.update: the row's metadata as
\* read (?? {}), spread, with managedProjectIds replaced by old ++ [id].
\* Faulty variant: the other metadata keys are not spread.
withoutSpread(projectUserTx, id) ==
    LET serverMetadataTx == IF IsSome(projectUserTx.serverMetadata)
                            THEN Get(projectUserTx.serverMetadata) ELSE <<>>
    IN  [managedProjectIds |-> Append(managedProjectIdsOf(serverMetadataTx), id)]

mergedServerMetadata(projectUserTx, id) ==
    LET serverMetadataTx == IF IsSome(projectUserTx.serverMetadata)
                            THEN Get(projectUserTx.serverMetadata) ELSE <<>>
    IN  [k \in DOMAIN serverMetadataTx \cup {"managedProjectIds"} |->
            IF k = "managedProjectIds"
            THEN Append(managedProjectIdsOf(serverMetadataTx), id)
            ELSE serverMetadataTx[k]]

----------------------------------------------------------------------------
(* The store as a transaction sees it *)

Callers == DOMAIN proc

\* Reads inside a transaction see its own writes, else the committed row.
visibleUser(p, userId) ==
    IF userId \in DOMAIN proc[p].writes THEN Some(proc[p].writes[userId])
    ELSE users[userId]

\* The row lock an update needs is held by another open transaction.
lockedByOther(p, userId) ==
    \E q \in Callers \ {p} : userId \in DOMAIN proc[q].writes

waitingFor(p) ==
    IF proc[p].pc = "updateOwner" THEN {Get(proc[p].projectUserTx).projectUserId} ELSE {}

\* p waits for a lock q holds.
waitsFor(p, q) == p # q /\ waitingFor(p) \cap DOMAIN proc[q].writes # {}

RECURSIVE reaches(_, _, _)
reaches(p, q, n) ==
    \/ waitsFor(p, q)
    \/ n > 0 /\ \E r \in Callers : waitsFor(p, r) /\ reaches(r, q, n - 1)

\* Faulty variant: a lock-wait cycle is never detected.
cycleNeverDetected(p) == FALSE

inDeadlock(p) == reaches(p, p, Cardinality(Callers))

----------------------------------------------------------------------------
(* createProject *)

IdleProc ==
    [pc |-> "idle", ownerIds |-> <<>>, data |-> [config |-> None], project |-> None,
     i |-> 1, projectUserTx |-> None, writes |-> <<>>, result |-> None,
     before |-> [projects |-> {}, users |-> InitUsers]]

\* The transaction is rolled back and the error reaches the caller.
Fail(p, r) ==
    proc' = [proc EXCEPT ![p].pc = "failed", ![p].result = Some(Rethrow(r)),
                         ![p].project = None, ![p].writes = <<>>,
                         ![p].projectUserTx = None]

ownerLoop(p, i) == IF i <= Len(proc[p].ownerIds) THEN "findOwner" ELSE "reread"

\* createProject(ownerIds, data) is called and opens its transaction.
CreateProject(p, calls) ==
    /\ proc[p].pc \in {"idle", "done", "failed"}
    /\ budget > 0
    /\ \E call \in calls :
           proc' = [proc EXCEPT ![p] =
                       [IdleProc EXCEPT !.pc = "create", !.ownerIds = call.ownerIds,
                                        !.data = call.data,
                                        !.before = [projects |-> projects, users |-> users]]]
    /\ budget' = budget - 1
    /\ UNCHANGED <<projects, users, nextUuid, captured, lastRead>>

\* tx.project.create with its nested creates: the argument is built (and may
\* throw) before the store is called, and the rows go to the transaction.
\* Faulty variant: the Project row is inserted outside the transaction,
\* before the nested data is validated.
ProjectRowOutsideTx(p) ==
    /\ proc[p].pc = "create"
    /\ LET r == projectCreate(nextUuid, proc[p].data)
       IN  IF Failed(r)
           THEN /\ Fail(p, r)
                /\ projects' = projects \cup {Get(projectCreateData(nextUuid, NoConfig).value)}
           ELSE /\ proc' = [proc EXCEPT ![p].pc = "authMethods", ![p].project = r.value]
                /\ UNCHANGED projects
    /\ nextUuid' = nextUuid + 1
    /\ UNCHANGED <<users, budget, captured, lastRead>>

\* Faulty variant: the create runs on the client instead of the transaction,
\* so the new Project row is visible before the rest of the graph exists.
ProjectCreateOnClient(p) ==
    /\ proc[p].pc = "create"
    /\ LET r == projectCreate(nextUuid, proc[p].data)
       IN  IF Failed(r)
           THEN Fail(p, r) /\ UNCHANGED projects
           ELSE /\ proc' = [proc EXCEPT ![p].pc = "authMethods", ![p].project = r.value]
                /\ projects' = projects \cup {Get(r.value)}
    /\ nextUuid' = nextUuid + 1
    /\ UNCHANGED <<users, budget, captured, lastRead>>

TxProjectCreate(p) ==
    /\ proc[p].pc = "create"
    /\ LET r == projectCreate(nextUuid, proc[p].data)
       IN  IF Failed(r) THEN Fail(p, r)
           ELSE proc' = [proc EXCEPT ![p].pc = "authMethods", ![p].project = r.value]
    /\ nextUuid' = nextUuid + 1
    /\ UNCHANGED <<projects, users, budget, captured, lastRead>>

\* tx.projectConfig.update creating the auth methods.
TxCreateAuthMethods(p) ==
    /\ proc[p].pc = "authMethods"
    /\ LET project == Get(proc[p].project)
           r == authMethodConfigsCreate(proc[p].data, project)
       IN  IF Failed(r) THEN Fail(p, r)
           ELSE proc' = [proc EXCEPT
                    ![p].pc = "connectedAccounts",
                    ![p].project = Some([project EXCEPT !.authMethodConfigs = @ \o Get(r.value)])]
    /\ UNCHANGED <<projects, users, nextUuid, budget, captured, lastRead>>

\* tx.projectConfig.update creating the connected accounts.
TxCreateConnectedAccounts(p) ==
    /\ proc[p].pc = "connectedAccounts"
    /\ LET project == Get(proc[p].project)
           r == connectedAccountConfigsCreate(proc[p].data, project)
       IN  IF Failed(r) THEN Fail(p, r)
           ELSE proc' = [proc EXCEPT
                    ![p].pc = "memberPermission",
                    ![p].project = Some([project EXCEPT !.connectedAccountConfigs = @ \o Get(r.value)])]
    /\ UNCHANGED <<projects, users, nextUuid, budget, captured, lastRead>>

TxCreateMemberPermission(p) ==
    /\ proc[p].pc = "memberPermission"
    /\ LET project == Get(proc[p].project)
       IN  proc' = [proc EXCEPT
               ![p].pc = "adminPermission",
               ![p].project = Some([project EXCEPT
                   !.permissions = Append(@, memberPermissionCreate(project.id))])]
    /\ UNCHANGED <<projects, users, nextUuid, budget, captured, lastRead>>

TxCreateAdminPermission(p) ==
    /\ proc[p].pc = "adminPermission"
    /\ LET project == Get(proc[p].project)
       IN  proc' = [proc EXCEPT
               ![p].pc = ownerLoop(p, 1),
               ![p].i = 1,
               ![p].project = Some([project EXCEPT
                   !.permissions = Append(@, adminPermissionCreate(project.id))])]
    /\ UNCHANGED <<projects, users, nextUuid, budget, captured, lastRead>>

\* continue: the loop goes on with the owner after a missing one.
\* Faulty variant: the loop ends at the first missing owner.
breakOnMissingOwner(p) == "reread"

afterMissingOwner(p) == ownerLoop(p, proc[p].i + 1)

\* tx.projectUser.findUnique for ownerIds[i]; a missing row is captured and
\* skipped.
TxFindOwner(p) ==
    /\ proc[p].pc = "findOwner"
    /\ LET userId == proc[p].ownerIds[proc[p].i]
           projectUserTx == visibleUser(p, userId)
       IN  IF ~IsSome(projectUserTx) THEN
               /\ captured' = Append(captured,
                      [error |-> "project-creation-owner-not-found", userId |-> userId,
                       projectId |-> Get(proc[p].project).id])
               /\ proc' = [proc EXCEPT ![p].pc = afterMissingOwner(p), ![p].i = @ + 1]
           ELSE
               /\ proc' = [proc EXCEPT ![p].pc = "updateOwner",
                                       ![p].projectUserTx = projectUserTx]
               /\ UNCHANGED captured
    /\ UNCHANGED <<projects, users, nextUuid, budget, lastRead>>

\* tx.projectUser.update: waits for the row lock, then writes the metadata
\* merged from the row as it was read.
\* Faulty variant: the update runs on the client instead of the transaction,
\* so the owner row is committed at once, without waiting for the project.
UpdateOwnerOnClient(p) ==
    /\ proc[p].pc = "updateOwner"
    /\ LET projectUserTx == Get(proc[p].projectUserTx)
           userId == projectUserTx.projectUserId
           row == ProjectUser(userId,
                      Some(mergedServerMetadata(projectUserTx, Get(proc[p].project).id)))
       IN  /\ ~lockedByOther(p, userId)
           /\ users' = [users EXCEPT ![userId] = Some(row)]
           /\ proc' = [proc EXCEPT
                  ![p].pc = ownerLoop(p, proc[p].i + 1),
                  ![p].i = @ + 1,
                  ![p].projectUserTx = None]
    /\ UNCHANGED <<projects, nextUuid, budget, captured, lastRead>>

TxUpdateOwner(p) ==
    /\ proc[p].pc = "updateOwner"
    /\ LET projectUserTx == Get(proc[p].projectUserTx)
           userId == projectUserTx.projectUserId
           row == ProjectUser(userId,
                      Some(mergedServerMetadata(projectUserTx, Get(proc[p].project).id)))
       IN  /\ ~lockedByOther(p, userId)
           /\ proc' = [proc EXCEPT
                  ![p].pc = ownerLoop(p, proc[p].i + 1),
                  ![p].i = @ + 1,
                  ![p].projectUserTx = None,
                  ![p].writes = [u \in DOMAIN @ \cup {userId} |->
                                    IF u = userId THEN row ELSE @[u]]]
    /\ UNCHANGED <<projects, users, nextUuid, budget, captured, lastRead>>

\* The store ends a lock-wait cycle by aborting one of the transactions in it.
StoreAbortsDeadlock(p) ==
    /\ proc[p].pc = "updateOwner"
    /\ inDeadlock(p)
    /\ Fail(p, Throw(StoreError, "deadlock detected"))
    /\ UNCHANGED <<projects, users, nextUuid, budget, captured, lastRead>>

\* tx.project.findUnique of the new project, inside the transaction.
TxReread(p) ==
    /\ proc[p].pc = "reread"
    /\ IF IsSome(proc[p].project)
       THEN proc' = [proc EXCEPT ![p].pc = "commit"]
       ELSE Fail(p, Throw(InvariantViolation, "not found after creation"))
    /\ UNCHANGED <<projects, users, nextUuid, budget, captured, lastRead>>

\* The callback returns: the transaction commits its rows at once, and the
\* caller gets projectPrismaToCrud(result).
Commit(p) ==
    /\ proc[p].pc = "commit"
    /\ LET result == Get(proc[p].project)
           view == projectPrismaToCrud(fullProjectInclude(result))
       IN  /\ projects' = projects \cup {result}
           /\ users' = [u \in UserIds |->
                           IF u \in DOMAIN proc[p].writes
                           THEN Some(proc[p].writes[u]) ELSE users[u]]
           /\ proc' = [proc EXCEPT ![p].pc = IF Failed(view) THEN "failed" ELSE "done",
                                   ![p].result = Some(view),
                                   ![p].writes = <<>>]
    /\ UNCHANGED <<nextUuid, budget, captured, lastRead>>

\* getProject(projectId) by any reader, for an id handed out so far.
GetProject(projectId) ==
    /\ lastRead' = Some([projectId |-> projectId, result |-> getProject(projects, projectId)])
    /\ UNCHANGED <<projects, users, nextUuid, budget, proc, captured>>

----------------------------------------------------------------------------
(* Inputs *)

ProviderIds == {"github", "gitlab", "google"}

OAuthEntries ==
    [id : ProviderIds, type : {"shared"}, enabled : BOOLEAN,
     client_id : {None}, client_secret : {None}]
    \cup
    [id : ProviderIds, type : {"standard"}, enabled : BOOLEAN,
     client_id : {None, Some("cid")}, client_secret : {None, Some("sec")}]

DomainEntries ==
    [domain : {"https://a.example", "https://b.example"}, handler_path : {"/handler"}]

EmailConfigs ==
    {[type |-> "shared", host |-> None, port |-> None, username |-> None,
      password |-> None, sender_email |-> None, sender_name |-> None]}
    \cup
    [type : {"standard"}, host : {None, Some("smtp.example")}, port : {None, Some(587)},
     username : {None, Some("mailer")}, password : {None, Some("pw")},
     sender_email : {None, Some("noreply@a.example")}, sender_name : {None, Some("Acme")}]

Flags == {None, Some(TRUE), Some(FALSE)}

\* The requests of the model: each varies one part of data.config and
\* leaves the others out.
Requests ==
    {NoConfig}
    \cup {[config |-> Some([EmptyConfig EXCEPT !.oauth_providers = Some(l)])] :
            l \in SeqsUpTo(OAuthEntries, MaxProviders)}
    \cup {[config |-> Some([EmptyConfig EXCEPT !.domains = Some(l)])] :
            l \in SeqsUpTo(DomainEntries, MaxDomains)}
    \cup {[config |-> Some([EmptyConfig EXCEPT !.email_config = Some(e)])] :
            e \in EmailConfigs}
    \cup {[config |-> Some([EmptyConfig EXCEPT !.magic_link_enabled = f[1],
                                               !.credential_enabled = f[2],
                                               !.passkey_enabled = f[3]])] :
            f \in Flags \X Flags \X Flags}

\* One caller: every request for one existing owner, and every owner list
\* for the request without a config.
Calls ==
    {[ownerIds |-> <<"alice">>, data |-> r] : r \in Requests}
    \cup {[ownerIds |-> o, data |-> NoConfig] : o \in SeqsUpTo(UserIds, MaxOwners)}

\* Concurrent callers: owner lists over two existing users, and one request
\* the write path rejects.
RejectedRequest ==
    [config |-> Some([EmptyConfig EXCEPT !.oauth_providers =
        Some(<<[id |-> "github", type |-> "standard", enabled |-> TRUE,
                client_id |-> Some("cid"), client_secret |-> None]>>)])]

ConcurrentCalls ==
    {[ownerIds |-> o, data |-> NoConfig] : o \in SeqsUpTo({"alice", "bob"}, MaxOwners)}
    \cup {[ownerIds |-> <<"alice">>, data |-> RejectedRequest]}

----------------------------------------------------------------------------
(* Specifications *)

InitStore ==
    /\ projects = {}
    /\ users = InitUsers
    /\ nextUuid = 1
    /\ captured = <<>>
    /\ lastRead = None

\* One caller, one call.
Init ==
    /\ InitStore
    /\ budget = 1
    /\ proc = [p \in {1} |-> IdleProc]

Read == \E projectId \in 1..(nextUuid - 1) : GetProject(projectId)

Next ==
    \/ \E p \in Callers : CreateProject(p, Calls)
    \/ \E p \in Callers : TxProjectCreate(p)
    \/ \E p \in Callers : TxCreateAuthMethods(p)
    \/ \E p \in Callers : TxCreateConnectedAccounts(p)
    \/ \E p \in Callers : TxCreateMemberPermission(p)
    \/ \E p \in Callers : TxCreateAdminPermission(p)
    \/ \E p \in Callers : TxFindOwner(p)
    \/ \E p \in Callers : TxUpdateOwner(p)
    \/ \E p \in Callers : TxReread(p)
    \/ \E p \in Callers : Commit(p)
    \/ Read

Spec == Init /\ [][Next]_vars

\* Two callers whose transactions interleave at every await.
InitConcurrent ==
    /\ InitStore
    /\ budget = MaxCalls
    /\ proc = [p \in {1, 2} |-> IdleProc]

NextConcurrent ==
    \/ \E p \in Callers : CreateProject(p, ConcurrentCalls)
    \/ \E p \in Callers : TxProjectCreate(p)
    \/ \E p \in Callers : TxCreateAuthMethods(p)
    \/ \E p \in Callers : TxCreateConnectedAccounts(p)
    \/ \E p \in Callers : TxCreateMemberPermission(p)
    \/ \E p \in Callers : TxCreateAdminPermission(p)
    \/ \E p \in Callers : TxFindOwner(p)
    \/ \E p \in Callers : TxUpdateOwner(p)
    \/ \E p \in Callers : StoreAbortsDeadlock(p)
    \/ \E p \in Callers : TxReread(p)
    \/ \E p \in Callers : Commit(p)
    \/ Read

SpecConcurrent == InitConcurrent /\ [][NextConcurrent]_vars

\* The concurrent callers under the scheduling the runtime and the store
\* give them: a statement of the callback that is not waiting for a row lock
\* is carried out once awaited; the store grants a row lock to a waiting
\* update once the lock has been released (its lock queue keeps a later
\* request from overtaking the waiter); and the store ends a lock-wait cycle.
ConcurrentCallers == {1, 2}

Proceeds(p) ==
    \/ TxProjectCreate(p)
    \/ TxCreateAuthMethods(p)
    \/ TxCreateConnectedAccounts(p)
    \/ TxCreateMemberPermission(p)
    \/ TxCreateAdminPermission(p)
    \/ TxFindOwner(p)
    \/ TxReread(p)
    \/ Commit(p)

Scheduling ==
    \A p \in ConcurrentCallers :
        /\ WF_vars(Proceeds(p))
        /\ SF_vars(TxUpdateOwner(p))
        /\ WF_vars(StoreAbortsDeadlock(p))

\* The steps of the callers alone: a reader takes no lock and changes nothing
\* a caller sees.
NextScheduled ==
    \/ \E p \in Callers : CreateProject(p, ConcurrentCalls)
    \/ \E p \in Callers : Proceeds(p)
    \/ \E p \in Callers : TxUpdateOwner(p)
    \/ \E p \in Callers : StoreAbortsDeadlock(p)

SpecScheduled == InitConcurrent /\ [][NextScheduled]_vars /\ Scheduling

\* The reader alone, on one stored graph drawn from every combination of
\* populated variants, including those the write path never produces.
ReaderProviderRows ==
    UNION {[id : {id},
            proxiedOAuthConfig : {None, Some([type |-> typedToUppercase(id)])},
            standardOAuthConfig :
                {None, Some([type |-> typedToUppercase(id), clientId |-> "cid",
                             clientSecret |-> "sec"])}] : id \in ProviderIds}

ReaderEmailServiceConfigs ==
    {None} \cup
    {Some(e) : e \in [proxiedEmailServiceConfig : {None, Some(EmptyRow)},
                      standardEmailServiceConfig :
                          {None, Some([host |-> "smtp.example", port |-> 587,
                                       username |-> "mailer", password |-> "pw",
                                       senderEmail |-> "noreply@a.example",
                                       senderName |-> "Acme"])}]}

ReaderGraph(rows, refs, email, system) ==
    [id |-> 1,
     domains |-> <<>>,
     oauthProviderConfigs |-> rows,
     emailServiceConfig |-> email,
     authMethodConfigs |->
         [k \in DOMAIN refs |-> AuthMethod(TRUE, Some(rows[refs[k]].id), None, None, None)]
         \o <<AuthMethod(TRUE, None, None, Some(EmptyRow), None)>>,
     connectedAccountConfigs |-> <<>>,
     permissions |-> <<memberPermissionCreate(1), adminPermissionCreate(1)>>,
     teamCreateDefaultSystemPermissions |-> system,
     teamMemberDefaultSystemPermissions |-> system]

\* One stored graph: provider rows with distinct ids, each referenced by at
\* most one auth method, in any order.
InitReader ==
    /\ \E rows \in SeqsUpTo(ReaderProviderRows, MaxProviders) :
           /\ Distinct(ids(rows))
           /\ \E refs \in SeqsUpTo(DOMAIN rows, Len(rows)) :
                  /\ Distinct(refs)
                  /\ \E email \in ReaderEmailServiceConfigs :
                         \E system \in {<<>>, <<"READ_MEMBERS", "DELETE_TEAM">>} :
                             projects = {ReaderGraph(rows, refs, email, system)}
    /\ users = InitUsers
    /\ nextUuid = 2
    /\ budget = 0
    /\ proc = <<>>
    /\ captured = <<>>
    /\ lastRead = None

NextReader == Read

SpecReader == InitReader /\ [][NextReader]_vars

----------------------------------------------------------------------------
(* Claims *)

Done(p) == proc[p].pc = "done"
FailedWith(p, kinds) ==
    proc[p].pc = "failed" /\ Get(Get(proc[p].result).err).kind \in kinds
Started(p) == proc[p].pc \notin {"idle", "create"}
returnedView(p) == Get(Get(proc[p].result).value)
newId(p) == Get(proc[p].project).id
committedGraph(p) == Get(findProject(projects, newId(p)))
existed(p, userId) == IsSome(proc[p].before.users[userId])
metadataOf(row) == IF IsSome(Get(row).serverMetadata) THEN Get(Get(row).serverMetadata) ELSE <<>>
occurrences(s, x) == Cardinality({i \in DOMAIN s : s[i] = x})
repeated(x, n) == [i \in 1..n |-> x]
requestedProviders(p) ==
    IF IsSome(cfg(proc[p].data, "oauth_providers"))
    THEN Get(cfg(proc[p].data, "oauth_providers")) ELSE <<>>

\* C1: a createProject call that failed with a ValidationError or an
\* InvariantViolation leaves the committed store as it was before the call:
\* no project row of the attempt, no owner metadata changed.
C1_FailedCallLeavesStoreUnchanged ==
    \A p \in Callers :
        FailedWith(p, {ValidationError, InvariantViolation}) =>
            /\ projects = proc[p].before.projects
            /\ users = proc[p].before.users

C1_Witness ==
    \E p \in Callers :
        /\ FailedWith(p, {ValidationError})
        /\ IsSome(cfg(proc[p].data, "email_config"))

\* C2: owner ids without a row never fail the call: a call fails only for
\* what tx.project.create rejects; a finished call has committed its project
\* and returned its view, every missing owner was captured, and every owner
\* that has a row, before or after a missing one, lists the new project.
C2_MissingOwnersAreSkipped ==
    \A p \in Callers :
        /\ proc[p].pc = "failed" =>
               \E id \in 1..(nextUuid - 1) : Failed(projectCreate(id, proc[p].data))
        /\ Done(p) =>
               /\ ~Failed(Get(proc[p].result))
               /\ returnedView(p).id = newId(p)
               /\ IsSome(findProject(projects, newId(p)))
               /\ \A i \in DOMAIN proc[p].ownerIds :
                      LET userId == proc[p].ownerIds[i]
                      IN  IF existed(p, userId)
                          THEN newId(p) \in Range(managedProjectIdsOf(metadataOf(users[userId])))
                          ELSE \E k \in DOMAIN captured :
                                   /\ captured[k].userId = userId
                                   /\ captured[k].projectId = newId(p)

C2_Witness ==
    \E p \in Callers : Done(p) /\ proc[p].ownerIds = <<"ghost", "alice">>

C3_MergeAppendsAreSerialized ==
    \A p, q \in Callers :
        (p # q /\ Done(p) /\ Done(q)) =>
            \A userId \in Range(proc[p].ownerIds) \cap Range(proc[q].ownerIds) :
                IsSome(users[userId]) =>
                    {newId(p), newId(q)} \subseteq
                        Range(managedProjectIdsOf(metadataOf(users[userId])))

\* C6: getProject of a graph in which a provider config referenced by an
\* auth method, or the email service config, has no variant or both
\* variants populated throws an InvariantViolation; it returns no view.
oneVariant(a, b) == IsSome(a) # IsSome(b)

malformed(g) ==
    \/ \E k \in DOMAIN g.authMethodConfigs :
           /\ IsSome(g.authMethodConfigs[k].oauthProviderConfigId)
           /\ \E c \in Range(g.oauthProviderConfigs) :
                  /\ c.id = Get(g.authMethodConfigs[k].oauthProviderConfigId)
                  /\ ~oneVariant(c.proxiedOAuthConfig, c.standardOAuthConfig)
    \/ /\ IsSome(g.emailServiceConfig)
       /\ ~oneVariant(Get(g.emailServiceConfig).proxiedEmailServiceConfig,
                      Get(g.emailServiceConfig).standardEmailServiceConfig)

C6_ReaderRejectsZeroOrTwoVariants ==
    IsSome(lastRead) =>
        \A g \in projects :
            (g.id = Get(lastRead).projectId /\ malformed(g)) =>
                /\ Failed(Get(lastRead).result)
                /\ Get(Get(lastRead).result.err).kind = InvariantViolation

\* C7: a request with a standard provider entry lacking client_id or
\* client_secret, anywhere in the list, fails with a ValidationError before
\* anything is written: no row of the project, in the transaction or
\* committed, and no owner row changed.
lacksCredentials(item) ==
    item.type = "standard" /\ (~IsSome(item.client_id) \/ ~IsSome(item.client_secret))

C7_StandardProviderNeedsCredentials ==
    \A p \in Callers :
        (Started(p) /\ \E k \in DOMAIN requestedProviders(p) :
                           lacksCredentials(requestedProviders(p)[k])) =>
            /\ FailedWith(p, {ValidationError})
            /\ proc[p].project = None
            /\ projects = proc[p].before.projects
            /\ users = proc[p].before.users

C7_Witness ==
    \E p \in Callers :
        /\ FailedWith(p, {ValidationError})
        /\ Get(Get(proc[p].result).err).message = "client_secret is required"
        /\ Len(requestedProviders(p)) = 2
        /\ ~lacksCredentials(requestedProviders(p)[1])
        /\ lacksCredentials(requestedProviders(p)[2])
        /\ projects = {}

\* C8: every created project has exactly the two permission records member
\* (team-member default, parents READ_MEMBERS and INVITE_MEMBERS) and admin
\* (team-creator default, parents UPDATE_TEAM, DELETE_TEAM, READ_MEMBERS,
\* REMOVE_MEMBERS and INVITE_MEMBERS), and the returned view lists them.
edgesAre(perm, set) ==
    Range(perm.parentEdges) = set /\ Len(perm.parentEdges) = Cardinality(set)

C8_DefaultPermissionsAreFixed ==
    \A p \in Callers :
        Done(p) =>
            LET perms == committedGraph(p).permissions
                member == {i \in DOMAIN perms : perms[i].queryableId = "member"}
                admin == {i \in DOMAIN perms : perms[i].queryableId = "admin"}
            IN  /\ Len(perms) = 2
                /\ Cardinality(member) = 1
                /\ Cardinality(admin) = 1
                /\ \A i \in member :
                       /\ perms[i].isDefaultTeamMemberPermission
                       /\ ~perms[i].isDefaultTeamCreatorPermission
                       /\ edgesAre(perms[i], {"READ_MEMBERS", "INVITE_MEMBERS"})
                /\ \A i \in admin :
                       /\ perms[i].isDefaultTeamCreatorPermission
                       /\ ~perms[i].isDefaultTeamMemberPermission
                       /\ edgesAre(perms[i], {"UPDATE_TEAM", "DELETE_TEAM", "READ_MEMBERS",
                                              "REMOVE_MEMBERS", "INVITE_MEMBERS"})
                /\ [id |-> "member"] \in Range(returnedView(p).team_member_default_permissions)
                /\ [id |-> "admin"] \in Range(returnedView(p).team_creator_default_permissions)

C8_Witness ==
    \E p \in Callers :
        /\ Done(p)
        /\ Len(requestedProviders(p)) = 2
        /\ returnedView(p).team_member_default_permissions = <<[id |-> "member"]>>
        /\ returnedView(p).team_creator_default_permissions = <<[id |-> "admin"]>>

\* C9: a request without email_config (or without config) stores an email
\* service config with only the shared variant, and the returned view and a
\* later getProject both report email_config = {type: "shared"}.
sharedOnly(emailServiceConfig) ==
    /\ IsSome(emailServiceConfig)
    /\ IsSome(Get(emailServiceConfig).proxiedEmailServiceConfig)
    /\ ~IsSome(Get(emailServiceConfig).standardEmailServiceConfig)

C9_EmailDefaultsToShared ==
    \A p \in Callers :
        ~IsSome(cfg(proc[p].data, "email_config")) =>
            /\ IsSome(proc[p].project) => sharedOnly(Get(proc[p].project).emailServiceConfig)
            /\ Done(p) =>
                   /\ sharedOnly(committedGraph(p).emailServiceConfig)
                   /\ returnedView(p).email_config = [type |-> "shared"]
                   /\ getProject(projects, newId(p)) = Ok(Some(returnedView(p)))
                   /\ (IsSome(lastRead) /\ Get(lastRead).projectId = newId(p)) =>
                          /\ ~Failed(Get(lastRead).result)
                          /\ \A v \in Range(Get(Get(lastRead).result.value)) :
                                 v.email_config = [type |-> "shared"]

C9_Witness ==
    \E p \in Callers :
        /\ Done(p)
        /\ proc[p].data = NoConfig
        /\ IsSome(lastRead)
        /\ Get(lastRead).result = Ok(Some(returnedView(p)))
        /\ returnedView(p).email_config = [type |-> "shared"]

\* C10: whatever the order of the request's lists, the view of the
\* provisioned project, as returned and as read back, has oauth_providers
\* ascending by id, domains ascending by domain and both default permission
\* lists ascending by id.
ascending(keys) ==
    \A i \in DOMAIN keys : i < Len(keys) => localeCompare(keys[i], keys[i + 1]) <= 0

sortedView(v) ==
    /\ ascending(ids(v.oauth_providers))
    /\ ascending([i \in DOMAIN v.domains |-> v.domains[i].domain])
    /\ ascending(ids(v.team_creator_default_permissions))
    /\ ascending(ids(v.team_member_default_permissions))

C10_ViewListsAreSorted ==
    \A p \in Callers :
        Done(p) =>
            /\ sortedView(returnedView(p))
            /\ \A v \in Range(Get(getProject(projects, newId(p)).value)) : sortedView(v)

C10_Witness ==
    \E p \in Callers :
        /\ Done(p)
        /\ ids(requestedProviders(p)) = <<"google", "github">>
        /\ ids(returnedView(p).oauth_providers) = <<"github", "google">>

C10_WitnessDomains ==
    \E p \in Callers :
        /\ Done(p)
        /\ IsSome(cfg(proc[p].data, "domains"))
        /\ Len(Get(cfg(proc[p].data, "domains"))) = 2
        /\ Get(cfg(proc[p].data, "domains"))[1].domain = "https://b.example"
        /\ returnedView(p).domains[1].domain = "https://a.example"

\* C11: a getProject running while createProject is in progress returns
\* either null or the complete project (email config, every requested OAuth
\* auth method and connected account, the password/OTP/passkey rows and both
\* default permissions), never a project with part of its graph.
flag(data, field, default) ==
    IF IsSome(cfg(data, field)) THEN Get(cfg(data, field)) ELSE default

requestedOAuth(data) ==
    IF IsSome(cfg(data, "oauth_providers")) THEN Get(cfg(data, "oauth_providers")) ELSE <<>>

completeGraph(g, data) ==
    /\ IsSome(g.emailServiceConfig)
    /\ Len(g.oauthProviderConfigs) = Len(requestedOAuth(data))
    /\ Len(g.connectedAccountConfigs) = Len(requestedOAuth(data))
    /\ Len(SelectSeq(g.authMethodConfigs, LAMBDA a : IsSome(a.oauthProviderConfigId)))
           = Len(requestedOAuth(data))
    /\ Len(SelectSeq(g.authMethodConfigs, LAMBDA a : IsSome(a.passwordConfig)))
           = IF flag(data, "credential_enabled", TRUE) THEN 1 ELSE 0
    /\ Len(SelectSeq(g.authMethodConfigs, LAMBDA a : IsSome(a.otpConfig)))
           = IF flag(data, "magic_link_enabled", FALSE) THEN 1 ELSE 0
    /\ Len(SelectSeq(g.authMethodConfigs, LAMBDA a : IsSome(a.passkeyConfig)))
           = IF flag(data, "passkey_enabled", FALSE) THEN 1 ELSE 0
    /\ Len(g.permissions) = 2

completeView(v, data) ==
    /\ Range(ids(v.oauth_providers)) = Range(ids(requestedOAuth(data)))
    /\ Len(v.oauth_providers) = Len(requestedOAuth(data))
    /\ v.credential_enabled = flag(data, "credential_enabled", TRUE)
    /\ v.magic_link_enabled = flag(data, "magic_link_enabled", FALSE)
    /\ v.passkey_enabled = flag(data, "passkey_enabled", FALSE)
    /\ v.team_member_default_permissions = <<[id |-> "member"]>>
    /\ v.team_creator_default_permissions = <<[id |-> "admin"]>>

C11_ReadIsNullOrComplete ==
    /\ \A g \in projects : \E p \in Callers :
           /\ Done(p)
           /\ newId(p) = g.id
           /\ completeGraph(g, proc[p].data)
    /\ IsSome(lastRead) =>
           \/ Get(lastRead).result = Ok(None)
           \/ \E p \in Callers :
                  /\ Done(p)
                  /\ newId(p) = Get(lastRead).projectId
                  /\ Get(lastRead).result = Ok(Some(returnedView(p)))
                  /\ completeView(returnedView(p), proc[p].data)

\* A read that fell between the creation of the auth methods and the commit
\* of a call asking for two providers, and found nothing.
C11_Witness ==
    \E p \in Callers :
        /\ proc[p].pc \in {"connectedAccounts", "memberPermission", "adminPermission"}
        /\ Len(requestedOAuth(proc[p].data)) = 2
        /\ IsSome(lastRead)
        /\ Get(lastRead).projectId = newId(p)
        /\ Get(lastRead).result = Ok(None)

\* C12: the created project has credential_enabled true unless the request
\* set it to false, magic_link_enabled true exactly when the request set it
\* to true (through one OTP row on the email channel) and passkey_enabled
\* true exactly when the request set it to true; it has at most one row of
\* each of the three kinds, and every such row is enabled.
rowsWith(g, kind) == SelectSeq(g.authMethodConfigs, LAMBDA a : IsSome(a[kind]))

C12_AuthMethodFlagsFollowRequest ==
    \A p \in Callers :
        Done(p) =>
            LET g == committedGraph(p)
                v == returnedView(p)
                c == cfg(proc[p].data, "credential_enabled")
                m == cfg(proc[p].data, "magic_link_enabled")
                k == cfg(proc[p].data, "passkey_enabled")
            IN  /\ v.credential_enabled <=> c # Some(FALSE)
                /\ v.magic_link_enabled <=> m = Some(TRUE)
                /\ v.passkey_enabled <=> k = Some(TRUE)
                /\ Len(rowsWith(g, "passwordConfig")) = (IF c # Some(FALSE) THEN 1 ELSE 0)
                /\ Len(rowsWith(g, "otpConfig")) = (IF m = Some(TRUE) THEN 1 ELSE 0)
                /\ Len(rowsWith(g, "passkeyConfig")) = (IF k = Some(TRUE) THEN 1 ELSE 0)
                /\ \A kind \in {"passwordConfig", "otpConfig", "passkeyConfig"} :
                       \A i \in DOMAIN rowsWith(g, kind) : rowsWith(g, kind)[i].enabled
                /\ \A i \in DOMAIN rowsWith(g, "otpConfig") :
                       Get(rowsWith(g, "otpConfig")[i].otpConfig).contactChannelType = "EMAIL"

\* A project asked for with magic links on, passkeys off and nothing said
\* about passwords.
C12_Witness ==
    \E p \in Callers :
        /\ Done(p)
        /\ cfg(proc[p].data, "magic_link_enabled") = Some(TRUE)
        /\ cfg(proc[p].data, "credential_enabled") = None
        /\ cfg(proc[p].data, "passkey_enabled") = Some(FALSE)
        /\ returnedView(p).credential_enabled
        /\ returnedView(p).magic_link_enabled
        /\ ~returnedView(p).passkey_enabled

\* C13: for a request whose providers have distinct ids, the view of the
\* created project has exactly one oauth_providers entry for each requested
\* provider, with the requested id, type and enabled and, for a standard
\* provider, the requested client_id and client_secret; and
\* enabled_oauth_providers is the subsequence of oauth_providers with
\* enabled = true, in the same order.
requestedEntry(item) ==
    IF item.type = "shared"
    THEN [id |-> item.id, enabled |-> item.enabled, type |-> "shared"]
    ELSE [id |-> item.id, enabled |-> item.enabled, type |-> "standard",
          client_id |-> Get(item.client_id), client_secret |-> Get(item.client_secret)]

C13_ViewHasOneEntryPerProvider ==
    \A p \in Callers :
        (Done(p) /\ Distinct(ids(requestedProviders(p)))) =>
            LET v == returnedView(p)
                requested == requestedProviders(p)
            IN  /\ Len(v.oauth_providers) = Len(requested)
                /\ \A k \in DOMAIN requested :
                       Cardinality({i \in DOMAIN v.oauth_providers :
                                       v.oauth_providers[i].id = requested[k].id}) = 1
                /\ \A k \in DOMAIN requested :
                       \E i \in DOMAIN v.oauth_providers :
                           v.oauth_providers[i] = requestedEntry(requested[k])
                /\ v.enabled_oauth_providers =
                       SelectSeq(v.oauth_providers, LAMBDA provider : provider.enabled)
                /\ ids(v.enabled_oauth_providers) =
                       ids(SelectSeq(sortBy(requested, ids(requested)),
                                     LAMBDA item : item.enabled))

\* google (shared, enabled) and github (standard, disabled) are reported as
\* [github, google], with google alone in enabled_oauth_providers.
C13_Witness ==
    \E p \in Callers :
        /\ Done(p)
        /\ requestedProviders(p) =
               <<[id |-> "google", type |-> "shared", enabled |-> TRUE,
                  client_id |-> None, client_secret |-> None],
                 [id |-> "github", type |-> "standard", enabled |-> FALSE,
                  client_id |-> Some("cid"), client_secret |-> Some("sec")]>>
        /\ returnedView(p).oauth_providers =
               <<[id |-> "github", enabled |-> FALSE, type |-> "standard",
                  client_id |-> "cid", client_secret |-> "sec"],
                 [id |-> "google", enabled |-> TRUE, type |-> "shared"]>>
        /\ returnedView(p).enabled_oauth_providers =
               <<[id |-> "google", enabled |-> TRUE, type |-> "shared"]>>

\* C14: the write path alone keeps the exactly-one-of invariants: whatever
\* calls of createProject were made, every committed OAuthProviderConfig has
\* exactly one of its two variants, every committed project has an
\* EmailServiceConfig with exactly one of its two variants, and reading a
\* created project (in the call or by getProject) raises no InvariantViolation.
wellFormed(g) ==
    /\ \A c \in Range(g.oauthProviderConfigs) :
           oneVariant(c.proxiedOAuthConfig, c.standardOAuthConfig)
    /\ IsSome(g.emailServiceConfig)
    /\ oneVariant(Get(g.emailServiceConfig).proxiedEmailServiceConfig,
                  Get(g.emailServiceConfig).standardEmailServiceConfig)

C14_WritePathKeepsExactlyOneVariant ==
    /\ \A g \in projects :
           /\ wellFormed(g)
           /\ ~Failed(getProject(projects, g.id))
    /\ \A p \in Callers : ~FailedWith(p, {InvariantViolation})
    /\ IsSome(lastRead) => ~Failed(Get(lastRead).result)

\* A committed project with a standard email configuration, read back.
C14_Witness ==
    \E p \in Callers :
        /\ Done(p)
        /\ IsSome(Get(committedGraph(p).emailServiceConfig).standardEmailServiceConfig)
        /\ IsSome(lastRead)
        /\ Get(lastRead).result = Ok(Some(returnedView(p)))

\* C15: a request whose email_config has type "standard" and lacks one of
\* host, port, username, password, sender_email, sender_name fails with the
\* ValidationError of the first missing field, in that order, and leaves no
\* Project row; with all six present the view's email_config has type
\* "standard" and exactly the requested values.
requestedEmail(p) == Get(cfg(proc[p].data, "email_config"))

asksStandardEmail(p) ==
    /\ IsSome(cfg(proc[p].data, "email_config"))
    /\ requestedEmail(p).type = "standard"

firstMissing(e, order) ==
    LET missing == SelectSeq(order, LAMBDA f : ~IsSome(e[f]))
    IN  IF missing = <<>> THEN None ELSE Some(missing[1])

C15_StandardEmailNeedsSixFields ==
    \A p \in Callers :
        (Started(p) /\ asksStandardEmail(p)
                    /\ ~Failed(oauthProviderConfigsCreate(proc[p].data))) =>
            LET e == requestedEmail(p)
                lacking == firstMissing(e, <<"host", "port", "username", "password",
                                            "sender_email", "sender_name">>)
            IN  IF IsSome(lacking)
                THEN /\ FailedWith(p, {ValidationError})
                     /\ Get(Get(proc[p].result).err).message = Get(lacking) \o " is required"
                     /\ ~IsSome(proc[p].project)
                     /\ projects = proc[p].before.projects
                     /\ users = proc[p].before.users
                ELSE Done(p) =>
                     /\ returnedView(p).email_config =
                            [type |-> "standard", host |-> Get(e.host), port |-> Get(e.port),
                             username |-> Get(e.username), password |-> Get(e.password),
                             sender_email |-> Get(e.sender_email),
                             sender_name |-> Get(e.sender_name)]
                     /\ getProject(projects, newId(p)) = Ok(Some(returnedView(p)))

\* A request lacking username and sender_name is refused for its username.
C15_Witness ==
    \E p \in Callers :
        /\ asksStandardEmail(p)
        /\ IsSome(requestedEmail(p).host) /\ IsSome(requestedEmail(p).port)
        /\ ~IsSome(requestedEmail(p).username)
        /\ ~IsSome(requestedEmail(p).sender_name)
        /\ FailedWith(p, {ValidationError})
        /\ Get(Get(proc[p].result).err).message = "username is required"

\* A request with all six fields is provisioned with them.
C15_WitnessComplete ==
    \E p \in Callers :
        /\ asksStandardEmail(p)
        /\ Done(p)
        /\ returnedView(p).email_config.type = "standard"
        /\ returnedView(p).email_config.sender_name = "Acme"

\* C16: every call of createProject eventually completes, with the committed
\* project or with an error, also when concurrent calls update the same
\* owners in opposite orders; a call that failed is not started again by the
\* core (only a new call by a caller leaves the failed state).
completed(p) == proc[p].pc \in {"done", "failed"}

C17_ManagedProjectIdsHaveNoDuplicates ==
    \A userId \in UserIds :
        IsSome(users[userId]) =>
            Distinct(managedProjectIdsOf(metadataOf(users[userId])))

\* C18: in every committed state, each project id that createProject added
\* to an owner's managedProjectIds is the id of an existing Project row; a
\* call that failed, at whatever step, leaves no owner pointing at the
\* project it did not create.
handedOut == 1..(nextUuid - 1)

C18_RegistryNamesExistingProjects ==
    \A userId \in UserIds :
        IsSome(users[userId]) =>
            \A id \in Range(managedProjectIdsOf(metadataOf(users[userId]))) \cap handedOut :
                \E g \in projects : g.id = id

\* A call that had already updated alice inside its transaction was failed
\* by the store while waiting for bob; the other call committed, and alice
\* lists the committed project only.
C18_Witness ==
    \E p, q \in Callers :
        /\ proc[p].ownerIds = <<"alice", "bob">>
        /\ FailedWith(p, {StoreError})
        /\ Done(q)
        /\ Range(managedProjectIdsOf(metadataOf(users["alice"]))) \cap handedOut
               = {newId(q)}
        /\ \E g \in projects : g.id = newId(q)
        /\ Cardinality(projects) = 1

====
